---- MODULE Spec2Model ----
(***************************************************************************)
(* Console session proxy of Pterodactyl-Frontend: the token store           *)
(* (tokenStore.js), the console-token issuer (functions.js), the issuance   *)
(* endpoint (index_api.js) and the websocket relay (the upgrade handler of  *)
(* index.js, kept in .github/copilot-instructions.md).                      *)
(*                                                                         *)
(* Strings that the code slices, trims or compares (tokens) are sequences   *)
(* of one-character strings. Fixed texts (event names, error texts, server  *)
(* ids, socket urls) are TLA+ strings.                                      *)
(***************************************************************************)
EXTENDS Integers, Sequences, FiniteSets, TLC

VARIABLES STORE, clock, inputs, limit, regLast, cfg, sess, issued, fault, call

vars == <<STORE, clock, inputs, limit, regLast, cfg, sess, issued, fault, call>>

---------------------------------------------------------------------------
(* Bounds of the model *)

\* the number of inputs (requests, frames, clock steps) a behaviour of Spec takes
MaxInputs == 4
\* the number of client frames a behaviour of SpecBurst sends beyond MAX_QUEUE
MaxOverflow == 2
\* the number of steps (token store calls, clock steps) of a behaviour of SpecReg
MaxRegOps == 5
\* the number of getConsoleToken calls a behaviour of SpecIssue makes
MaxIssues == 2
\* inputs of a behaviour with two sessions
MaxPairInputs == 4

---------------------------------------------------------------------------
(* Program constants *)

\* 15 * 60 * 1000
EXPIRES_IN_MS == 900000
\* setTimeout(..., 15000)
AUTH_TIMEOUT_MS == 15000
\* slice(0,8)
PREFIX_LEN == 8
MAX_QUEUE == 200

---------------------------------------------------------------------------
(* Strings *)

SP == " "
ELLIPSIS == <<".", ".", ".">>
\* the JS value null/undefined where a string is expected
NULLV == <<"<null>">>
\* String(v)
String(v) == IF v = NULLV THEN <<"n", "u", "l", "l">> ELSE v
\* JS truthiness of a string-or-null value
Truthy(v) == v # NULLV /\ v # <<>>

Min(a, b) == IF a < b THEN a ELSE b

\* s.slice(0, n)
Slice(s, n) == SubSeq(s, 1, Min(n, Len(s)))

RECURSIVE TrimLeft(_)
TrimLeft(s) == IF s # <<>> /\ Head(s) = SP THEN TrimLeft(Tail(s)) ELSE s

RECURSIVE TrimRight(_)
TrimRight(s) ==
    IF s # <<>> /\ s[Len(s)] = SP THEN TrimRight(SubSeq(s, 1, Len(s) - 1)) ELSE s

\* String(token).trim()
Trim(s) == TrimRight(TrimLeft(s))

Pad(s) == <<SP>> \o s \o <<SP>>

TokLong == <<"a", "b", "c", "d", "e", "f", "g", "h", "i", "j">>
TokShort == <<"x", "y", "z">>

---------------------------------------------------------------------------
(* tokenStore.js: STORE is a Map, kept here as the sequence of its entries *)
(* in insertion order.                                                      *)

NoMeta == [absent |-> TRUE]
NoExpiry == 0
NoSocket == ""

Meta(serverId, socket, expiresAt, createdAt) ==
    [serverId |-> serverId, socket |-> socket, expiresAt |-> expiresAt,
     createdAt |-> createdAt]

\* the caller's meta object: { serverId, socket, expiresAt }
MetaArg(serverId, socket, expiresAt) ==
    [serverId |-> serverId, socket |-> socket, expiresAt |-> expiresAt]

Keys(store) == {store[i].key : i \in 1..Len(store)}

IndexOf(store, key) == CHOOSE i \in 1..Len(store) : store[i].key = key

\* STORE.get(key)
MapGet(store, key) ==
    IF key \in Keys(store) THEN store[IndexOf(store, key)].meta ELSE NoMeta

\* STORE.set(key, value): an existing key keeps its place
MapSet(store, key, value) ==
    IF key \in Keys(store)
    THEN [store EXCEPT ![IndexOf(store, key)].meta = value]
    ELSE Append(store, [key |-> key, meta |-> value])

\* STORE.delete(key)
MapDelete(store, key) ==
    IF key \in Keys(store)
    THEN LET i == IndexOf(store, key)
         IN  SubSeq(store, 1, i - 1) \o SubSeq(store, i + 1, Len(store))
    ELSE store

\* storeToken(token, meta) at time now: the new STORE
storeToken(store, token, meta, now) ==
    IF ~Truthy(token) THEN store
    ELSE MapSet(store, Trim(String(token)),
                Meta(meta.serverId, meta.socket, meta.expiresAt, now))

\* an expiry test that counts the deadline itself as past
Expired_AtDeadline(t, now) == t.expiresAt # NoExpiry /\ now >= t.expiresAt

\* t.expiresAt && now() > t.expiresAt
Expired(t, now) == t.expiresAt # NoExpiry /\ now > t.expiresAt

\* getToken without its expiry test
getTokenResult_NoExpiry(store, token, now) == MapGet(store, Trim(String(token)))

\* getToken(token) at time now: the value returned
getTokenResult(store, token, now) ==
    LET t == MapGet(store, Trim(String(token)))
    IN  IF t = NoMeta THEN NoMeta
        ELSE IF Expired(t, now) THEN NoMeta
        ELSE t

\* a getToken that leaves an expired entry where it is
getTokenStore_Keep(store, token, now) == store

\* getToken(token) at time now: the new STORE
getTokenStore(store, token, now) ==
    LET key == Trim(String(token))
        t == MapGet(store, key)
    IN  IF t = NoMeta THEN store
        ELSE IF Expired(t, now) THEN MapDelete(store, key)
        ELSE store

\* deleteToken(token): the new STORE
deleteToken(store, token) == MapDelete(store, Trim(String(token)))

\* listTokens()
listTokens(store) ==
    [i \in 1..Len(store) |->
        [tokenPrefix |-> Slice(store[i].key, PREFIX_LEN) \o ELLIPSIS,
         serverId |-> store[i].meta.serverId,
         createdAt |-> store[i].meta.createdAt,
         expiresAt |-> store[i].meta.expiresAt]]

---------------------------------------------------------------------------
(* functions.js: getConsoleToken. cfg holds which of PANEL_URL,              *)
(* PTERODACTYL_CLIENT_API_KEY and PTERODACTYL_APPLICATION_API_KEY are set.   *)
(* An upstream response is what axios.get produced: ok = FALSE when it       *)
(* threw, else the fields of response.data the code reads.                   *)

Response(ok, ddToken, dToken, attrToken, ddSocket, dSocket) ==
    [ok |-> ok, ddToken |-> ddToken, dToken |-> dToken, attrToken |-> attrToken,
     ddSocket |-> ddSocket, dSocket |-> dSocket]

NoData == Response(FALSE, NULLV, NULLV, NULLV, NoSocket, NoSocket)

\* a || b on string-or-null values
OrElse(a, b) == IF Truthy(a) THEN a ELSE b

\* a || b on socket values
OrSocket(a, b) == IF a # NoSocket THEN a ELSE b

\* response.data?.data?.token || response.data?.token || response.data?.attributes?.token || null
ExtractToken(d) == OrElse(d.ddToken, OrElse(d.dToken, OrElse(d.attrToken, NULLV)))

\* response.data?.data?.socket || response.data?.socket || null
ExtractSocket(d) == OrSocket(d.ddSocket, OrSocket(d.dSocket, NoSocket))

IssueResult(success, token, socket, data, error, calls) ==
    [success |-> success, token |-> token, socket |-> socket, data |-> data,
     error |-> error, calls |-> calls]

\* getConsoleToken(serverId) when the client-key call produces `primary` and the
\* application-key call (if made) produces `fallback`; calls lists the upstream
\* operations called, in order
getConsoleToken(c, primary, fallback) ==
    IF ~c.panelUrl
    THEN IssueResult(FALSE, NULLV, NoSocket, NoData, "Panel URL not configured.", <<>>)
    ELSE IF ~c.clientKey
    THEN IssueResult(FALSE, NULLV, NoSocket, NoData, "Client API key not configured.", <<>>)
    ELSE IF primary.ok
    THEN IssueResult(TRUE, ExtractToken(primary), ExtractSocket(primary), primary,
                     "", <<"client">>)
    ELSE IF c.appKey
    THEN IF fallback.ok
         THEN IssueResult(TRUE, ExtractToken(fallback), ExtractSocket(fallback),
                          fallback, "", <<"client", "application">>)
         ELSE IssueResult(FALSE, NULLV, NoSocket, NoData,
                          "Could not obtain console token from panel.",
                          <<"client", "application">>)
    ELSE IssueResult(FALSE, NULLV, NoSocket, NoData,
                     "Could not obtain console token from panel.", <<"client">>)

---------------------------------------------------------------------------
(* getConsoleToken step by step, with its try/catch blocks. call is the call *)
(* in progress: pc where it stands, primary and fallback what the two        *)
(* axios.get produced and status the HTTP status of the last one (0: none, a *)
(* network error), upstream the upstream operations called, logged the       *)
(* status given to each logApiRequest and whether it wrote its line, result  *)
(* what the call returned; pc = "raised" when an exception left the function. *)

NoResult == [none |-> TRUE]

NoCall ==
    [n |-> 0, pc |-> "idle", id |-> "", primary |-> NoData, fallback |-> NoData,
     status |-> 0, upstream |-> <<>>, logged |-> <<>>, result |-> NoResult,
     answer |-> NoResult]

\* a logApiRequest without its try/catch
logApiRequest_NoCatch(writes) == IF writes THEN "returned" ELSE "threw"

\* logApiRequest: whether or not appendFile succeeds, the catch block ends it
logApiRequest(writes) == IF writes THEN "returned" ELSE "returned"

\* where an exception thrown at pc is caught: the catch (err) of the inner try,
\* the catch (err2) of the fallback, the outer catch (error), or nowhere
Catches(pc) ==
    CASE pc = "logPrimary" -> "logPrimaryError"
      [] pc = "logFallback" -> "logFallbackError"
      [] pc \in {"logPrimaryError", "logFallbackError"} -> "logOuter"
      [] OTHER -> "raised"

Failure(error, calls) == IssueResult(FALSE, NULLV, NoSocket, NoData, error, calls)

\* return at pc with result
Return(c, result) == [c EXCEPT !.pc = "done", !.result = result]

\* getConsoleToken(serverId) is called: the two configuration checks
IssueBegin(c, config, id) ==
    LET c1 == [NoCall EXCEPT !.n = c.n + 1, !.id = id]
    IN  IF ~config.panelUrl THEN Return(c1, Failure("Panel URL not configured.", <<>>))
        ELSE IF ~config.clientKey
        THEN Return(c1, Failure("Client API key not configured.", <<>>))
        ELSE [c1 EXCEPT !.pc = "primary"]

\* axios.get(clientUrl) produced response
IssuePrimary(c, response, status) ==
    [c EXCEPT !.primary = response, !.status = status, !.upstream = Append(@, "client"),
              !.pc = IF response.ok THEN "logPrimary" ELSE "logPrimaryError"]

\* axios.get(appUrl) produced response
IssueFallback(c, response, status) ==
    [c EXCEPT !.fallback = response, !.status = status,
              !.upstream = Append(@, "application"),
              !.pc = IF response.ok THEN "logFallback" ELSE "logFallbackError"]

\* a continuation that tries the application key whether or not one is set
AfterLog_NoKeyTest(c, config) ==
    IF c.pc = "logPrimaryError" THEN [c EXCEPT !.pc = "fallback"]
    ELSE Return(c, Failure("Could not obtain console token from panel.", c.upstream))

\* what follows a logApiRequest that returned
AfterLog(c, config) ==
    CASE c.pc = "logPrimary" ->
           Return(c, IssueResult(TRUE, ExtractToken(c.primary), ExtractSocket(c.primary),
                                 c.primary, "", c.upstream))
      [] c.pc = "logPrimaryError" ->
           IF config.appKey THEN [c EXCEPT !.pc = "fallback"]
           ELSE Return(c, Failure("Could not obtain console token from panel.", c.upstream))
      [] c.pc = "logFallback" ->
           Return(c, IssueResult(TRUE, ExtractToken(c.fallback), ExtractSocket(c.fallback),
                                 c.fallback, "", c.upstream))
      [] c.pc = "logFallbackError" ->
           Return(c, Failure("Could not obtain console token from panel.", c.upstream))
      [] c.pc = "logOuter" ->
           Return(c, Failure("Failed to obtain console token.", c.upstream))

\* await logApiRequest(...) at pc; writes: appendFile succeeds
IssueLog(c, config, writes) ==
    LET c1 == [c EXCEPT !.logged = Append(@, [status |-> c.status, written |-> writes])]
    IN  IF logApiRequest(writes) = "returned" THEN AfterLog(c1, config)
        ELSE [c1 EXCEPT !.pc = Catches(c.pc)]

---------------------------------------------------------------------------
(* Inputs of the model *)

Sessions == {1}

FullConfig == [panelUrl |-> TRUE, clientKey |-> TRUE, appKey |-> TRUE]

\* the upstream's answers to a request of the endpoint for server B: none, a
\* short token with a socket, a token without a socket
TokenResponses ==
    { NoData,
      Response(TRUE, NULLV, TokShort, NULLV, NoSocket, "wss://n2"),
      Response(TRUE, NULLV, NULLV, TokLong, NoSocket, NoSocket) }

\* the upstream's answers to a refresh: none, a token with another socket, a
\* short token without a socket, a body without a token
UpstreamResponses ==
    { NoData,
      Response(TRUE, TokLong, NULLV, NULLV, "wss://n1", NoSocket),
      Response(TRUE, NULLV, TokShort, NULLV, NoSocket, NoSocket),
      Response(TRUE, NULLV, NULLV, NULLV, NoSocket, NoSocket) }

\* the application-key responses to enumerate after a client-key response p:
\* all of them when p failed, one when p succeeded
Fallbacks(p, all) == IF p.ok THEN {NoData} ELSE all

\* the requests to the endpoint in Spec, each with the client-key and the
\* application-key response it meets: server A gets the long token
IssueRequests ==
    {<<"A", Response(TRUE, TokLong, NULLV, NULLV, "wss://n1", NoSocket), NoData>>}
    \cup {r \in {"B"} \X TokenResponses \X TokenResponses :
              r[3] \in Fallbacks(r[2], TokenResponses)}

\* the relay paths requested in Spec (the code treats all ids alike)
UpgradeIds == {"B"}

\* how far the clock moves in one step of Spec
ClockSteps == {EXPIRES_IN_MS + 1}

AuthTokens == {TokLong, Pad(TokLong), TokShort}

---------------------------------------------------------------------------
(* Websocket frames. A frame is its text; json says whether JSON.parse      *)
(* succeeds on it, and event, isArr (Array.isArray(args)) and arg (args[0]) *)
(* are what the parsed object holds. n tells apart the frames one side      *)
(* sends; note is the fixed text of a relay-originated error frame.         *)

Frame(n, json, event, isArr, arg, note) ==
    [n |-> n, json |-> json, event |-> event, isArr |-> isArr, arg |-> arg,
     note |-> note]

\* JSON.stringify({ event: 'error', args: [text] })
ErrorFrame(text) == Frame(0, TRUE, "error", TRUE, NULLV, text)

\* JSON.stringify({ event: 'auth', args: [token] })
AuthFrame(token) == Frame(0, TRUE, "auth", TRUE, token, "")

\* JSON.stringify({ event: 'token refreshed', args: [newToken.slice(0,8) + '...'] })
RefreshedFrame(newToken) ==
    Frame(0, TRUE, "token refreshed", TRUE, Slice(newToken, PREFIX_LEN) \o ELLIPSIS, "")

\* what a client can send
ClientFrames ==
    { Frame(0, TRUE, "auth", TRUE, t, "") : t \in AuthTokens }
    \cup { Frame(0, TRUE, "auth", FALSE, NULLV, ""),
           Frame(0, TRUE, "auth", TRUE, <<>>, ""),
           Frame(0, TRUE, "send command", TRUE, <<"l", "s">>, ""),
           Frame(0, FALSE, "", FALSE, NULLV, "") }

\* what a client sends once it is authenticated
ForwardFrames ==
    { Frame(0, TRUE, "auth", TRUE, TokLong, ""),
      Frame(0, TRUE, "send command", TRUE, <<"l", "s">>, ""),
      Frame(0, FALSE, "", FALSE, NULLV, "") }

\* what the backend can send
BackendFrames ==
    { Frame(0, TRUE, "console output", TRUE, <<"h", "i">>, ""),
      Frame(0, TRUE, "token expiring", FALSE, NULLV, ""),
      Frame(0, TRUE, "token expired", FALSE, NULLV, ""),
      Frame(0, FALSE, "", FALSE, NULLV, "") }

Numbered(f, n) == [f EXCEPT !.n = n]

\* a test that takes an auth frame whatever its first argument
IsHandshakeAuth_AnyArg(f) == f.json /\ f.event = "auth" /\ f.isArr

\* !(!parsed || parsed.event !== 'auth' || !Array.isArray(parsed.args) || !parsed.args[0])
IsHandshakeAuth(f) == f.json /\ f.event = "auth" /\ f.isArr /\ Truthy(f.arg)

\* a filter that also takes what does not parse
IsClientAuth_OrUnparsed(f) == ~f.json \/ f.event = "auth"

\* p && p.event === 'auth'
IsClientAuth(f) == f.json /\ f.event = "auth"

\* parsed && (parsed.event === 'token expiring' || parsed.event === 'token expired')
IsExpiryEvent(f) == f.json /\ f.event \in {"token expiring", "token expired"}

---------------------------------------------------------------------------
(* One relay session: the state the handleUpgrade callback closes over.     *)
(* client and remote are the readyState of wsClient and wsRemote ("none":   *)
(* not created). toClient and toBackend list the send() calls made on each  *)
(* connection: the frame, and ok, whether the connection was OPEN and took  *)
(* it. dialled lists the sockets new WebSocket() connected to; seen what    *)
(* the handshake looked up: the token, the time, and rec, the entry STORE   *)
(* held for it then; early the client frames forwardClientMessage got       *)
(* before wsRemote opened; hungUp whether wsClient was closed or failed     *)
(* before the relay closed it; issuerCalls the serverId of each             *)
(* getConsoleToken call of a refresh and results what each returned;        *)
(* inflight the expiry frames whose refresh awaits getConsoleToken, of the  *)
(* nExpiry the backend sent; heard the client frames forwardClientMessage   *)
(* was given and received the frames the wsRemote 'message' handler was.     *)

NoSession ==
    [serverId |-> "", client |-> "none", timer |-> "none", deadline |-> 0,
     onMessage |-> FALSE, onForward |-> FALSE, remote |-> "none",
     remoteOn |-> FALSE, token |-> NULLV, meta |-> NoMeta,
     queue |-> <<>>, toClient |-> <<>>, toBackend |-> <<>>, dialled |-> <<>>,
     inflight |-> <<>>, issuerCalls |-> <<>>, nClient |-> 0, nBackend |-> 0,
     seen |-> <<>>, early |-> <<>>, hungUp |-> FALSE,
     results |-> <<>>, nExpiry |-> 0, heard |-> <<>>, received |-> <<>>]

\* wsClient.send(f) inside try/catch: sent only when wsClient is OPEN
ClientSend(r, f) ==
    [r EXCEPT !.toClient = Append(@, [f |-> f, ok |-> r.client = "open"])]

\* wsClient.close() inside try/catch
ClientCloseCall(r) ==
    IF r.client = "open" THEN [r EXCEPT !.client = "closing"] ELSE r

\* wsRemote.send(f) inside try/catch: sent only when wsRemote is OPEN
RemoteSend(r, f) ==
    [r EXCEPT !.toBackend = Append(@, [f |-> f, ok |-> r.remote = "open"])]

\* the frames a connection took, in order
Taken(log) ==
    LET took == SelectSeq(log, LAMBDA c : c.ok)
    IN  [i \in 1..Len(took) |-> took[i].f]

\* a close() that leaves a handshake in progress alone
RemoteCloseCall_NoAbort(r) ==
    IF r.remote = "open" THEN [r EXCEPT !.remote = "closing"] ELSE r

\* wsRemote.close() inside try/catch: a handshake in progress is aborted
RemoteCloseCall(r) ==
    IF r.remote = "connecting" THEN [r EXCEPT !.remote = "aborting"]
    ELSE IF r.remote = "open" THEN [r EXCEPT !.remote = "closing"]
    ELSE r

---------------------------------------------------------------------------
(* The handlers of one session, as functions of the session's state *)

\* the callback without its wsClient.close()
onAuthTimeout_NoClose(r) ==
    ClientSend([r EXCEPT !.timer = "fired"], ErrorFrame("Auth timeout"))

\* the setTimeout callback
onAuthTimeout(r) ==
    ClientCloseCall(ClientSend([r EXCEPT !.timer = "fired"], ErrorFrame("Auth timeout")))

\* the validation without its serverId comparison
ValidFor_AnyServer(meta, serverId) == meta # NoMeta

\* !(!meta || meta.serverId !== serverId)
ValidFor(meta, serverId) == meta # NoMeta /\ meta.serverId = serverId

\* new WebSocket(backendSocket, ...) throws on a socket that is no url
CanDial(socket) == socket # NoSocket

\* a handshake that leaves onMessage attached
Detach_StayAttached(r) == [r EXCEPT !.timer = IF @ = "armed" THEN "cleared" ELSE @]

\* a handshake that leaves the timer armed
Detach_NoClear(r) == [r EXCEPT !.onMessage = FALSE]

\* clearTimeout(authTimeout); wsClient.off('message', onMessage)
Detach(r) ==
    [r EXCEPT !.timer = IF @ = "armed" THEN "cleared" ELSE @, !.onMessage = FALSE]

\* an onMessage that deletes the token once it was used
onMessageStore_DeleteUsed(store, token, now) ==
    deleteToken(getTokenStore(store, token, now), token)

\* what onMessage(msg) does to STORE: getToken(token), and no deleteToken(token)
onMessageStore(store, token, now) == getTokenStore(store, token, now)

\* onMessage(msg), with meta the value getToken(token) returned
onMessage(r, f, meta) ==
    IF ~IsHandshakeAuth(f) THEN r
    ELSE LET r1 == [Detach(r) EXCEPT !.token = f.arg]
         IN  IF ~ValidFor(meta, r.serverId)
             THEN ClientCloseCall(ClientSend(r1, ErrorFrame("Invalid or expired token")))
             ELSE IF ~CanDial(meta.socket)
             THEN ClientCloseCall(
                      ClientSend([r1 EXCEPT !.meta = meta],
                                 ErrorFrame("Backend connection failed")))
             ELSE [r1 EXCEPT !.meta = meta, !.remote = "connecting",
                             !.dialled = Append(@, meta.socket), !.onForward = TRUE]

\* a queue that refuses a message when full
Enqueue_DropNewest(q, m) == IF Len(q) >= MAX_QUEUE THEN q ELSE Append(q, m)

\* if (length >= MAX_QUEUE) shift(); push(m)
Enqueue(q, m) == Append(IF Len(q) >= MAX_QUEUE THEN Tail(q) ELSE q, m)

\* a forwardClientMessage that keeps nothing while wsRemote is not open
forwardClientMessage_NoQueue(r, f) ==
    IF ~IsClientAuth(f) /\ r.remote = "open" THEN RemoteSend(r, f) ELSE r

\* forwardClientMessage(m)
forwardClientMessage(r, f) ==
    IF IsClientAuth(f) THEN r
    ELSE IF r.remote = "open" THEN RemoteSend(r, f)
    ELSE [r EXCEPT !.queue = Enqueue(@, f)]

\* a flush that takes the newest message first
Flush_NewestFirst(r) ==
    [r EXCEPT !.queue = <<>>,
              !.toBackend = @ \o [i \in 1..Len(r.queue) |->
                                     [f |-> r.queue[Len(r.queue) + 1 - i],
                                      ok |-> r.remote = "open"]]]

\* while (pendingClientMessages.length) wsRemote.send(pendingClientMessages.shift()):
\* one wsRemote.send per queued message, oldest first, until the queue is empty
Flush(r) ==
    [r EXCEPT !.queue = <<>>,
              !.toBackend = @ \o [i \in 1..Len(r.queue) |->
                                     [f |-> r.queue[i], ok |-> r.remote = "open"]]]

\* an 'open' handler that leaves the queue as it is
onRemoteOpen_NoFlush(r) == [RemoteSend(r, AuthFrame(r.token)) EXCEPT !.remoteOn = TRUE]

\* an 'open' handler that flushes the queue before it authenticates
onRemoteOpen_FlushFirst(r) ==
    [RemoteSend(Flush(r), AuthFrame(r.token)) EXCEPT !.remoteOn = TRUE]

\* the wsRemote 'open' handler
onRemoteOpen(r) ==
    [Flush(RemoteSend(r, AuthFrame(r.token))) EXCEPT !.remoteOn = TRUE]

\* a 'message' handler that forwards an expiry frame before its refresh too
onRemoteMessage_Eager(r, f) ==
    IF IsExpiryEvent(f)
    THEN ClientSend([r EXCEPT !.issuerCalls = Append(@, r.serverId),
                              !.inflight = Append(@, f)], f)
    ELSE ClientSend(r, f)

\* the wsRemote 'message' handler up to its await (or to its end)
onRemoteMessage(r, f) ==
    IF IsExpiryEvent(f)
    THEN [r EXCEPT !.issuerCalls = Append(@, r.serverId), !.inflight = Append(@, f)]
    ELSE ClientSend(r, f)

\* a test that takes a success without looking for its token
RefreshOk_AnySuccess(refreshed) == refreshed.success

\* refreshed && refreshed.success && refreshed.token
RefreshOk(refreshed) == refreshed.success /\ Truthy(refreshed.token)

\* refreshed.socket || meta.socket
NewSocket(refreshed, meta) == OrSocket(refreshed.socket, meta.socket)

\* a refresh that connects to the socket the new token came with
onRefreshed_Redial(r, m, refreshed) ==
    LET newToken == String(refreshed.token)
        r1 == IF RefreshOk(refreshed)
              THEN ClientSend(RemoteSend([r EXCEPT !.dialled = Append(@, NewSocket(refreshed, r.meta)),
                                                   !.remote = "connecting"],
                                         AuthFrame(newToken)),
                              RefreshedFrame(newToken))
              ELSE ClientSend(r, ErrorFrame("Token refresh failed"))
    IN  ClientSend(r1, m)

\* the wsRemote 'message' handler after await getConsoleToken(serverId), for the
\* frame m that started the refresh
onRefreshed(r, m, refreshed) ==
    LET newToken == String(refreshed.token)
        r1 == IF RefreshOk(refreshed)
              THEN ClientSend(RemoteSend(r, AuthFrame(newToken)), RefreshedFrame(newToken))
              ELSE ClientSend(r, ErrorFrame("Token refresh failed"))
    IN  ClientSend(r1, m)

\* a refresh that registers nothing
RefreshStore_Nothing(store, r, refreshed, now) == store

\* the wsRemote 'message' handler after an await getConsoleToken(serverId) that
\* threw: the catch block, then the forward of m
onRefreshRaised(r, m) == ClientSend(ClientSend(r, ErrorFrame("Token refresh error")), m)

\* the storeToken call of the refresh
RefreshStore(store, r, refreshed, now) ==
    IF RefreshOk(refreshed)
    THEN storeToken(store, String(refreshed.token),
                    MetaArg(r.serverId, NewSocket(refreshed, r.meta), now + EXPIRES_IN_MS),
                    now)
    ELSE store

\* an 'error' handler that only logs
onRemoteError_LogOnly(r) == [r EXCEPT !.remote = "closed"]

\* the wsRemote 'error' handlers, and the 'close' that follows the error
onRemoteError(r) ==
    [ClientCloseCall(ClientSend(r, ErrorFrame("Backend connection error")))
        EXCEPT !.remote = "closed"]

\* the wsRemote 'close' handler
onRemoteClose(r) == [ClientCloseCall(r) EXCEPT !.remote = "closed"]

\* a 'close' handler that leaves wsRemote alone
onClientClose_Orphan(r) == [r EXCEPT !.client = "closed"]

\* the wsClient 'close' handler, once attached
onClientClose(r) ==
    IF r.onForward THEN RemoteCloseCall([r EXCEPT !.client = "closed"])
    ELSE [r EXCEPT !.client = "closed"]

---------------------------------------------------------------------------
(* State *)

RegNone ==
    [n |-> 0, op |-> "none", token |-> NULLV, at |-> 0, before |-> <<>>,
     result |-> NoMeta, listing |-> <<>>]

\* the state at process start, for a behaviour that takes at most n inputs
Start(n) ==
    /\ STORE = <<>>
    /\ clock = 0
    /\ inputs = 0
    /\ limit = n
    /\ regLast = RegNone
    /\ cfg = FullConfig
    /\ sess = [s \in Sessions |-> NoSession]
    /\ issued = {}
    /\ fault = FALSE
    /\ call = NoCall

Init == Start(MaxInputs)

\* the process is up and takes one more input
Input ==
    /\ ~fault
    /\ inputs < limit
    /\ limit' = limit
    /\ inputs' = inputs + 1

\* time passes
Advance(d) ==
    /\ Input
    /\ clock' = clock + d
    /\ UNCHANGED <<STORE, regLast, cfg, sess, issued, fault, call>>

---------------------------------------------------------------------------
(* index_api.js: GET /server/:id/console. issued is the set of tokens the    *)
(* endpoint returned with success, each with the id it was asked for.       *)

\* result.socket || result.data?.data?.socket || result.data?.socket || null
EndpointSocket(result) ==
    OrSocket(result.socket, OrSocket(result.data.ddSocket, result.data.dSocket))

\* an endpoint that stores whatever the issuer returned
EndpointStore_Always(store, result, id, now) ==
    storeToken(store, String(result.token),
               MetaArg(id, EndpointSocket(result), now + EXPIRES_IN_MS), now)

\* what the endpoint does to STORE once getConsoleToken(id) returned result
EndpointStore(store, result, id, now) ==
    IF ~result.success THEN store
    ELSE storeToken(store, String(result.token),
                    MetaArg(id, EndpointSocket(result), now + EXPIRES_IN_MS), now)

\* what the endpoint answers: res.status(500).json({ success: false, error })
\* or res.json({ success: true, token })
EndpointAnswer(result) ==
    IF ~result.success
    THEN [status |-> 500, success |-> FALSE, token |-> NULLV,
          error |-> "Could not obtain console token."]
    ELSE [status |-> 200, success |-> TRUE, token |-> String(result.token), error |-> ""]

\* the tokens the endpoint has returned, with the one of answer
Issued(set, id, answer) ==
    IF answer.success THEN set \cup {[id |-> id, token |-> answer.token]} ELSE set

IssueEndpoint(id, primary, fallback) ==
    LET result == getConsoleToken(cfg, primary, fallback)
    IN  /\ Input
        /\ STORE' = EndpointStore(STORE, result, id, clock)
        /\ issued' = Issued(issued, id, EndpointAnswer(result))
        /\ UNCHANGED <<clock, regLast, cfg, sess, fault, call>>

---------------------------------------------------------------------------
(* The relay: server.on('upgrade') and the events of one session *)

Set(s, r) == sess' = [sess EXCEPT ![s] = r]

Rest == <<clock, regLast, cfg, issued, fault, call>>

Quiet == <<inputs, limit, Rest>>

\* an upgrade request for /ws/server/<id> is accepted
Upgrade(s, id) ==
    /\ ~fault
    /\ sess[s].client = "none"
    /\ Set(s, [sess[s] EXCEPT !.serverId = id, !.client = "open", !.timer = "armed",
                              !.deadline = clock + AUTH_TIMEOUT_MS, !.onMessage = TRUE])
    /\ UNCHANGED <<STORE, Quiet>>

\* the auth timer fires
AuthTimeout(s) ==
    /\ ~fault
    /\ sess[s].timer = "armed"
    /\ clock >= sess[s].deadline
    /\ Set(s, onAuthTimeout(sess[s]))
    /\ UNCHANGED <<STORE, Quiet>>

Heard(s) ==
    /\ Input
    /\ sess[s].client \in {"open", "closing"}

\* a client frame arrives while onMessage is attached
ClientHandshake(s, f) ==
    LET r == [sess[s] EXCEPT !.nClient = @ + 1]
        m == Numbered(f, r.nClient)
    IN  /\ Heard(s)
        /\ sess[s].onMessage
        /\ IF IsHandshakeAuth(m)
           THEN /\ Set(s, [onMessage(r, m, getTokenResult(STORE, m.arg, clock))
                              EXCEPT !.seen = Append(@, [token |-> m.arg, at |-> clock,
                                                         rec |-> MapGet(STORE, Trim(m.arg))])])
                /\ STORE' = onMessageStore(STORE, m.arg, clock)
           ELSE /\ Set(s, onMessage(r, m, NoMeta))
                /\ STORE' = STORE
        /\ UNCHANGED Rest

\* a client frame arrives while forwardClientMessage is attached
ClientForward(s, f) ==
    LET r == [sess[s] EXCEPT !.nClient = @ + 1]
        m == Numbered(f, r.nClient)
    IN  /\ Heard(s)
        /\ sess[s].onForward
        /\ Set(s, [forwardClientMessage(r, m)
                      EXCEPT !.early = IF r.remote = "connecting" THEN Append(@, m) ELSE @,
                             !.heard = Append(@, m)])
        /\ UNCHANGED <<STORE, Rest>>

\* a client frame arrives while neither is attached (after a failed handshake)
ClientUnheard(s, f) ==
    /\ Heard(s)
    /\ ~sess[s].onMessage
    /\ ~sess[s].onForward
    /\ Set(s, [sess[s] EXCEPT !.nClient = @ + 1])
    /\ UNCHANGED <<STORE, Rest>>

\* wsRemote reports 'open'
RemoteOpen(s) ==
    /\ ~fault
    /\ sess[s].remote = "connecting"
    /\ Set(s, onRemoteOpen([sess[s] EXCEPT !.remote = "open"]))
    /\ UNCHANGED <<STORE, Quiet>>

\* a backend frame arrives
RemoteMessage(s, f) ==
    LET r == [sess[s] EXCEPT !.nBackend = @ + 1,
                             !.nExpiry = IF IsExpiryEvent(f) THEN @ + 1 ELSE @]
    IN  /\ Input
        /\ sess[s].remote \in {"open", "closing"}
        /\ sess[s].remoteOn
        /\ Set(s, [onRemoteMessage(r, Numbered(f, r.nBackend))
                      EXCEPT !.received = Append(@, Numbered(f, r.nBackend))])
        /\ UNCHANGED <<STORE, Rest>>

Without(q, i) == SubSeq(q, 1, i - 1) \o SubSeq(q, i + 1, Len(q))

\* the getConsoleToken call of the i-th refresh in flight returns
RefreshReturns(s, i, primary, fallback) ==
    LET refreshed == getConsoleToken(cfg, primary, fallback)
        r == [sess[s] EXCEPT !.inflight = Without(@, i),
                             !.results = Append(@, [success |-> refreshed.success,
                                                    token |-> refreshed.token,
                                                    socket |-> refreshed.socket])]
    IN  /\ ~fault
        /\ i \in 1..Len(sess[s].inflight)
        /\ Set(s, onRefreshed(r, sess[s].inflight[i], refreshed))
        /\ STORE' = RefreshStore(STORE, r, refreshed, clock)
        /\ UNCHANGED Quiet

\* wsRemote reports 'error' (a failed or aborted handshake, or a transport error)
RemoteError(s) ==
    /\ ~fault
    /\ sess[s].remote \in {"connecting", "aborting", "open", "closing"}
    /\ Set(s, onRemoteError(sess[s]))
    /\ UNCHANGED <<STORE, Quiet>>

\* wsRemote reports 'close' after having been open
RemoteClose(s) ==
    /\ ~fault
    /\ sess[s].remote \in {"open", "closing"}
    /\ Set(s, onRemoteClose(sess[s]))
    /\ UNCHANGED <<STORE, Quiet>>

\* wsClient reports 'close'
ClientClose(s) ==
    /\ ~fault
    /\ sess[s].client \in {"open", "closing"}
    /\ Set(s, onClientClose([sess[s] EXCEPT !.hungUp = @ \/ sess[s].client = "open"]))
    /\ UNCHANGED <<STORE, Quiet>>

\* wsClient reports 'error': with no listener the emit throws in the process
ClientError(s) ==
    /\ ~fault
    /\ sess[s].client \in {"open", "closing"}
    /\ IF sess[s].onForward
       THEN /\ Set(s, RemoteCloseCall([sess[s] EXCEPT !.client = "closing",
                                                       !.hungUp = @ \/ sess[s].client = "open"]))
            /\ fault' = fault
       ELSE /\ fault' = TRUE
            /\ sess' = sess
    /\ UNCHANGED <<STORE, inputs, limit, clock, regLast, cfg, issued, call>>

SessionNext(s) ==
    \/ \E id \in UpgradeIds : Upgrade(s, id)
    \/ AuthTimeout(s)
    \/ \E f \in ClientFrames : ClientHandshake(s, f)
    \/ \E f \in ForwardFrames : ClientForward(s, f)
    \/ \E f \in ClientFrames : ClientUnheard(s, f)
    \/ RemoteOpen(s)
    \/ \E f \in BackendFrames : RemoteMessage(s, f)
    \/ \E i \in 1..limit, p \in UpstreamResponses :
          \E q \in Fallbacks(p, UpstreamResponses) : RefreshReturns(s, i, p, q)
    \/ RemoteError(s)
    \/ RemoteClose(s)
    \/ ClientClose(s)
    \/ ClientError(s)

Next ==
    \/ \E d \in ClockSteps : Advance(d)
    \/ \E q \in IssueRequests : IssueEndpoint(q[1], q[2], q[3])
    \/ \E s \in Sessions : SessionNext(s)

Spec == Init /\ [][Next]_vars

\* a timer that is due runs its callback
TimerSpec == Spec /\ \A s \in Sessions : WF_vars(AuthTimeout(s))

\* a close the relay started on a connection completes: ws reports 'close' on
\* wsClient, 'close' on an open wsRemote, 'error' on an aborted handshake
FairSpec ==
    /\ Spec
    /\ \A s \in Sessions :
          /\ WF_vars(sess[s].client = "closing" /\ ClientClose(s))
          /\ WF_vars(sess[s].remote = "closing" /\ RemoteClose(s))
          /\ WF_vars(sess[s].remote = "aborting" /\ RemoteError(s))

---------------------------------------------------------------------------
(* The issuer on its own: getConsoleToken called under any configuration,   *)
(* with any outcome of its upstream calls and of its log writes.            *)

Configs == [panelUrl : BOOLEAN, clientKey : BOOLEAN, appKey : BOOLEAN]

\* the HTTP status an upstream outcome comes with: 200, an error status, or
\* none (0) when the request failed on the network
Statuses(response) == IF response.ok THEN {200} ELSE {500, 0}

InitIssue ==
    /\ STORE = <<>>
    /\ clock = 0
    /\ inputs = 0
    /\ limit = MaxIssues
    /\ regLast = RegNone
    /\ cfg \in Configs
    /\ sess = [s \in Sessions |-> NoSession]
    /\ issued = {}
    /\ fault = FALSE
    /\ call = NoCall

IssueStep(c) ==
    /\ call' = c
    /\ UNCHANGED <<STORE, clock, inputs, limit, regLast, cfg, sess, issued, fault>>

IssueCalled(id) ==
    /\ call.pc \in {"idle", "done"}
    /\ call.n < limit
    /\ IssueStep(IssueBegin(call, cfg, id))

PrimaryReturns(response, status) ==
    /\ call.pc = "primary"
    /\ IssueStep(IssuePrimary(call, response, status))

FallbackReturns(response, status) ==
    /\ call.pc = "fallback"
    /\ IssueStep(IssueFallback(call, response, status))

LogReturns(writes) ==
    /\ call.pc \in {"logPrimary", "logPrimaryError", "logFallback", "logFallbackError",
                    "logOuter"}
    /\ IssueStep(IssueLog(call, cfg, writes))

NextIssue ==
    \/ \E id \in {"A", "B"} : IssueCalled(id)
    \/ \E r \in UpstreamResponses : \E st \in Statuses(r) : PrimaryReturns(r, st)
    \/ \E r \in UpstreamResponses : \E st \in Statuses(r) : FallbackReturns(r, st)
    \/ \E w \in BOOLEAN : LogReturns(w)

SpecIssue == InitIssue /\ [][NextIssue]_vars

---------------------------------------------------------------------------
(* The endpoint around the issuer: GET /server/:id/console awaits           *)
(* getConsoleToken(id), then stores and answers. call.answer is its answer. *)

\* the await of the endpoint returns: lines 96 to 111
EndpointReturns ==
    /\ call.pc = "done"
    /\ STORE' = EndpointStore(STORE, call.result, call.id, clock)
    /\ issued' = Issued(issued, call.id, EndpointAnswer(call.result))
    /\ call' = [call EXCEPT !.pc = "idle", !.answer = EndpointAnswer(call.result)]
    /\ UNCHANGED <<clock, inputs, limit, regLast, cfg, sess, fault>>

NextEndpoint ==
    \/ NextIssue
    \/ EndpointReturns

SpecEndpoint == InitIssue /\ [][NextEndpoint]_vars

---------------------------------------------------------------------------
(* A burst: one client that authenticates with an issued token and sends    *)
(* more than MAX_QUEUE frames while wsRemote is still connecting. The frame  *)
(* a client sends is fixed by its position, but for one that is either a    *)
(* command or a second auth frame.                                          *)

BurstToken == Response(TRUE, NULLV, TokShort, NULLV, NoSocket, "wss://n2")

BurstAuth == Frame(0, TRUE, "auth", TRUE, TokShort, "")

BurstCommand == Frame(0, TRUE, "send command", TRUE, <<"l", "s">>, "")

\* the frames a client sends as its k-th
BurstFrames(k) ==
    IF k = 1 THEN {BurstAuth}
    ELSE IF k = 3 THEN {BurstCommand, BurstAuth}
    ELSE {BurstCommand}

InitBurst == Start(MAX_QUEUE + MaxOverflow + 2)

NextBurst ==
    \/ STORE = <<>> /\ IssueEndpoint("B", BurstToken, NoData)
    \/ \E s \in Sessions :
          \/ STORE # <<>> /\ Upgrade(s, "B")
          \/ \E f \in BurstFrames(sess[s].nClient + 1) : ClientHandshake(s, f)
          \/ \E f \in BurstFrames(sess[s].nClient + 1) :
                sess[s].remote = "connecting" /\ ClientForward(s, f)
          \/ RemoteOpen(s)

SpecBurst == InitBurst /\ [][NextBurst]_vars

---------------------------------------------------------------------------
(* The token store on its own: its four functions called with any of        *)
(* RegTokens at any time. regLast records the last call: the function, its   *)
(* token argument, the time, STORE before the call and what was returned.   *)

RegTokens == {TokShort, Pad(TokShort), TokLong, <<>>, <<SP>>}

RegClockSteps == {1, EXPIRES_IN_MS}

RegExpiries == {NoExpiry, clock + EXPIRES_IN_MS}

RegCall(op, token, result, listing) ==
    /\ regLast.n < MaxRegOps
    /\ regLast' = [n |-> regLast.n + 1, op |-> op, token |-> token, at |-> clock,
                   before |-> STORE, result |-> result, listing |-> listing]
    /\ UNCHANGED <<inputs, limit, cfg, sess, issued, fault, call>>

\* time passes between two calls
RegAdvance(d) ==
    /\ RegCall("none", NULLV, NoMeta, <<>>)
    /\ clock' = clock + d
    /\ STORE' = STORE

RegStore(token, meta) ==
    /\ RegCall("storeToken", token, NoMeta, <<>>)
    /\ clock' = clock
    /\ STORE' = storeToken(STORE, token, meta, clock)

RegGet(token) ==
    /\ RegCall("getToken", token, getTokenResult(STORE, token, clock), <<>>)
    /\ clock' = clock
    /\ STORE' = getTokenStore(STORE, token, clock)

RegDelete(token) ==
    /\ RegCall("deleteToken", token, NoMeta, <<>>)
    /\ clock' = clock
    /\ STORE' = deleteToken(STORE, token)

RegList ==
    /\ RegCall("listTokens", NULLV, NoMeta, listTokens(STORE))
    /\ clock' = clock
    /\ STORE' = STORE

NextReg ==
    \/ \E d \in RegClockSteps : RegAdvance(d)
    \/ \E t \in RegTokens, e \in RegExpiries : RegStore(t, MetaArg("A", "wss://n1", e))
    \/ \E t \in RegTokens : RegGet(t)
    \/ \E t \in RegTokens : RegDelete(t)
    \/ RegList

SpecReg == Init /\ [][NextReg]_vars

---------------------------------------------------------------------------
(* Two sessions at once, and the path of the upgrade request. A pathname is  *)
(* its segments before the last, and the characters of the last.            *)

Pair == {1, 2}

PathOf(dir, last) == [dir |-> dir, last |-> last]

\* url.pathname.match(/^\/ws\/server\/([^\/]+)$/): the segment, or <<>> for no match
PathMatch(path) == IF path.dir = <<"ws", "server">> THEN path.last ELSE <<>>

HexDigits ==
    <<"0", "1", "2", "3", "4", "5", "6", "7", "8", "9", "A", "B", "C", "D", "E", "F">>

IsHex(c) == \E i \in 1..Len(HexDigits) : HexDigits[i] = c

HexVal(c) == (CHOOSE i \in 1..Len(HexDigits) : HexDigits[i] = c) - 1

Letters ==
    <<"A", "B", "C", "D", "E", "F", "G", "H", "I", "J", "K", "L", "M",
      "N", "O", "P", "Q", "R", "S", "T", "U", "V", "W", "X", "Y", "Z">>

\* the character of an ASCII code (the letters; "?" stands for the others)
Chr(n) == IF n \in 65..90 THEN Letters[n - 64] ELSE "?"

\* the escape %xy at the head of s is well-formed: two hex digits, and an ASCII
\* byte (a byte from 0x80 on needs continuation escapes, which no input has)
EscapeOk(s) ==
    /\ Len(s) >= 3
    /\ IsHex(s[2]) /\ IsHex(s[3])
    /\ 16 * HexVal(s[2]) + HexVal(s[3]) < 128

\* decodeURIComponent(s): ok and the decoded characters, or not ok (URIError)
RECURSIVE decodeURIComponent(_)
decodeURIComponent(s) ==
    IF s = <<>> THEN [ok |-> TRUE, out |-> <<>>]
    ELSE IF Head(s) # "%"
    THEN LET d == decodeURIComponent(Tail(s))
         IN  [ok |-> d.ok, out |-> IF d.ok THEN <<Head(s)>> \o d.out ELSE <<>>]
    ELSE IF ~EscapeOk(s) THEN [ok |-> FALSE, out |-> <<>>]
    ELSE LET d == decodeURIComponent(SubSeq(s, 4, Len(s)))
         IN  [ok |-> d.ok,
              out |-> IF d.ok
                      THEN <<Chr(16 * HexVal(s[2]) + HexVal(s[3]))>> \o d.out
                      ELSE <<>>]

\* the serverId of the decoded characters (the ids of the model have just one)
ServerId(out) == IF Len(out) = 1 THEN out[1] ELSE "?"

\* the pathnames of the upgrade requests: /ws/server/A, /ws/server/B,
\* /ws/server/%42, /ws/server/%4 and /ws/console/B
Paths ==
    { PathOf(<<"ws", "server">>, <<"A">>),
      PathOf(<<"ws", "server">>, <<"B">>),
      PathOf(<<"ws", "server">>, <<"%", "4", "2">>),
      PathOf(<<"ws", "server">>, <<"%", "4">>),
      PathOf(<<"ws", "console">>, <<"B">>) }

\* server.on('upgrade'): a path that does not match has its socket destroyed;
\* a segment that does not decode throws in the async listener, a rejection
\* nothing handles: the process dies of it, or (a runtime that only warns)
\* goes on with the socket left as it is; otherwise the upgrade is accepted
UpgradeRequest(s, path) ==
    LET segment == PathMatch(path)
        decoded == decodeURIComponent(segment)
    IN  IF segment = <<>>
        THEN /\ Input
             /\ UNCHANGED <<STORE, sess, Rest>>
        ELSE IF ~decoded.ok
        THEN /\ Input
             /\ fault' \in BOOLEAN
             /\ UNCHANGED <<STORE, sess, clock, regLast, cfg, issued, call>>
        ELSE Upgrade(s, ServerId(decoded.out))

\* the upstream's answer to the endpoint's request
PairResponse == Response(TRUE, TokLong, NULLV, NULLV, "wss://n1", NoSocket)

\* what the clients send: the token issued, and one that was not
PairFrames == { Frame(0, TRUE, "auth", TRUE, t, "") : t \in {TokLong, TokShort} }

PairCommand == Frame(0, TRUE, "send command", TRUE, <<"l", "s">>, "")

InitPair ==
    /\ STORE = <<>>
    /\ clock = 0
    /\ inputs = 0
    /\ limit = MaxPairInputs
    /\ regLast = RegNone
    /\ cfg = FullConfig
    /\ sess = [s \in Pair |-> NoSession]
    /\ issued = {}
    /\ fault = FALSE
    /\ call = NoCall

NextPair ==
    \/ \E d \in ClockSteps : Advance(d)
    \/ IssueEndpoint("B", PairResponse, NoData)
    \/ \E s \in Pair, path \in Paths : UpgradeRequest(s, path)
    \/ \E s \in Pair, f \in PairFrames : ClientHandshake(s, f)
    \/ \E s \in Pair : ClientForward(s, PairCommand)
    \/ \E s \in Pair : RemoteOpen(s)
    \/ \E s \in Pair : ClientClose(s)
    \/ \E s \in Pair : RemoteClose(s)

SpecPair == InitPair /\ [][NextPair]_vars

---------------------------------------------------------------------------
(* Properties *)

\* the registry record a handshake's token named when it was looked up:
\* absent once its expiresAt has passed
RecordSeen(look) ==
    IF look.rec # NoMeta /\ look.rec.expiresAt # NoExpiry /\ look.at > look.rec.expiresAt
    THEN NoMeta ELSE look.rec

IsError(c, text) == c.f.event = "error" /\ c.f.note = text

ErrorsSent(r, text) == {j \in 1..Len(r.toClient) : IsError(r.toClient[j], text)}

\* the handshake met a live record of another server
CrossResource(r) ==
    /\ r.seen # <<>>
    /\ RecordSeen(r.seen[1]) # NoMeta
    /\ RecordSeen(r.seen[1]).serverId # r.serverId

\* C1: a session opened for resource B that is presented a credential
\* registered and unexpired for another resource A sends an error frame to the
\* client, closes the inbound connection and never opens an outbound connection.
C1_CrossResourceRejected ==
    \A s \in Sessions :
        CrossResource(sess[s]) =>
            /\ ErrorsSent(sess[s], "Invalid or expired token") # {}
            /\ sess[s].client \in {"closing", "closed"}
            /\ sess[s].dialled = <<>>
            /\ sess[s].remote = "none"

C1_Witness ==
    \E s \in Sessions :
        /\ CrossResource(sess[s])
        /\ \E j \in ErrorsSent(sess[s], "Invalid or expired token") : sess[s].toClient[j].ok
        /\ sess[s].nClient > 1

\* C2: an outbound connection exists only if the session validated a presented
\* credential that was in the registry, unexpired, and registered for the
\* session's resource id; the socket dialled is that record's socket.
C2_OutboundOnlyAfterValidation ==
    \A s \in Sessions :
        (sess[s].remote # "none" \/ sess[s].dialled # <<>>) =>
            /\ Len(sess[s].seen) = 1
            /\ RecordSeen(sess[s].seen[1]) # NoMeta
            /\ RecordSeen(sess[s].seen[1]).serverId = sess[s].serverId
            /\ sess[s].dialled = <<RecordSeen(sess[s].seen[1]).socket>>

C2_Witness ==
    \E s \in Sessions :
        /\ sess[s].remote = "open"
        /\ sess[s].dialled = <<"wss://n2">>
        /\ clock > 0

\* the indices of the error frames the client received
ErrorsReceived(r) ==
    {j \in 1..Len(r.toClient) : r.toClient[j].ok /\ r.toClient[j].f.event = "error"}

\* the handshake looked a token up and found no live record for the server
Rejected(r) ==
    /\ r.seen # <<>>
    /\ ~(RecordSeen(r.seen[1]) # NoMeta /\ RecordSeen(r.seen[1]).serverId = r.serverId)

\* the session still awaits its auth frame when its 15 s are over
Overdue(r) == r.client = "open" /\ r.timer = "armed" /\ clock >= r.deadline

\* C3: a session that has sent no auth frame the handshake accepts receives no
\* error frame before its 15 s are over; one that still waits when they are
\* over is timed out (unless it ends otherwise or the process has failed);
\* once the auth timer has fired or the presented credential was refused, the
\* inbound connection is closed by the relay and the client has received
\* exactly one error frame (at most one, and none only when the client had
\* gone before the relay closed the connection).
C3_OneErrorThenClosed ==
    /\ [](\A s \in Sessions :
            /\ (sess[s].seen = <<>> /\ sess[s].timer = "armed") =>
                   /\ ErrorsReceived(sess[s]) = {}
                   /\ sess[s].deadline <= clock + AUTH_TIMEOUT_MS
            /\ (sess[s].timer = "fired" \/ Rejected(sess[s])) =>
                   /\ sess[s].client \in {"closing", "closed"}
                   /\ Cardinality(ErrorsReceived(sess[s])) <= 1
                   /\ ~sess[s].hungUp => Cardinality(ErrorsReceived(sess[s])) = 1
                   /\ sess[s].timer = "fired" => clock >= sess[s].deadline)
    /\ \A s \in Sessions :
          Overdue(sess[s]) ~> (sess[s].timer # "armed" \/ sess[s].client # "open" \/ fault)

C3_Witness ==
    \E s \in Sessions :
        /\ sess[s].timer = "fired"
        /\ Rejected(sess[s])
        /\ Len(sess[s].toClient) = 2
        /\ Cardinality(ErrorsReceived(sess[s])) = 1
        /\ sess[s].nClient = 3

NonAuth(q) == SelectSeq(q, LAMBDA f : ~IsClientAuth(f))

LastN(q, n) == IF Len(q) > n THEN SubSeq(q, Len(q) - n + 1, Len(q)) ELSE q

IsPrefix(p, q) == Len(p) <= Len(q) /\ SubSeq(q, 1, Len(p)) = p

\* what the backend has taken once wsRemote opened begins with want
OpenedWith(r, want) ==
    r.remoteOn => IsPrefix(<<AuthFrame(r.token)>> \o want, Taken(r.toBackend))

\* C4 as stated: every frame the client sent between the acceptance of its
\* auth frame and the opening of the outbound connection is delivered to the
\* backend in order when the connection opens, only the last 200 of them if
\* there were more.
C4_AllEarlyFramesDelivered ==
    \A s \in Sessions : OpenedWith(sess[s], LastN(sess[s].early, MAX_QUEUE))

\* C4: the frames the client sent between the acceptance of its auth frame and
\* the opening of the outbound connection, other than frames whose event is
\* auth, are delivered to the backend in the order sent when the connection
\* opens; if there were more than 200 of them, exactly the last 200 are.
C4_EarlyFramesButAuthDelivered ==
    \A s \in Sessions : OpenedWith(sess[s], LastN(NonAuth(sess[s].early), MAX_QUEUE))

C4_Witness ==
    \E s \in Sessions :
        /\ sess[s].remoteOn
        /\ Len(NonAuth(sess[s].early)) > MAX_QUEUE
        /\ Len(NonAuth(sess[s].early)) < Len(sess[s].early)
        /\ Len(Taken(sess[s].toBackend)) = MAX_QUEUE + 1

\* a client frame reached forwardClientMessage before wsRemote opened
Queued(s) == Len(sess'[s].early) = Len(sess[s].early) + 1

\* C5: the queue of pending client frames never holds more than 200; a frame
\* enqueued on a full queue removes the oldest and is appended, one enqueued on
\* a queue that is not full is appended.
C5_QueueBounded ==
    /\ [](\A s \in Sessions : Len(sess[s].queue) <= MAX_QUEUE)
    /\ [][\A s \in Sessions :
            (Queued(s) /\ ~IsClientAuth(sess'[s].early[Len(sess'[s].early)])) =>
                sess'[s].queue =
                    Append(IF Len(sess[s].queue) = MAX_QUEUE
                           THEN Tail(sess[s].queue) ELSE sess[s].queue,
                           sess'[s].early[Len(sess'[s].early)])]_vars

C5_Witness ==
    \E s \in Sessions :
        /\ Len(sess[s].queue) = MAX_QUEUE
        /\ Len(NonAuth(sess[s].early)) = MAX_QUEUE + 2
        /\ Head(sess[s].queue).n = 4

\* the issuer returned to a refresh of session s
Refreshed(s) == Len(sess'[s].results) = Len(sess[s].results) + 1

\* C6: each token expiring / token expired frame the backend sends makes one
\* issuer call, for the session's own resource id; when a call returns a
\* credential, it is registered under the session's resource id with an expiry
\* 15 min ahead, one auth frame carrying it is sent on the outbound connection
\* the session has, and no connection is opened; when it returns none, nothing
\* is registered and no auth frame is sent.
C6_RefreshReauthenticates ==
    /\ [](\A s \in Sessions :
            /\ Len(sess[s].issuerCalls) = sess[s].nExpiry
            /\ \A i \in 1..Len(sess[s].issuerCalls) : sess[s].issuerCalls[i] = sess[s].serverId)
    /\ [][\A s \in Sessions : Refreshed(s) =>
            LET res == sess'[s].results[Len(sess'[s].results)]
                newToken == String(res.token)
            IN  /\ sess'[s].dialled = sess[s].dialled
                /\ sess'[s].remote = sess[s].remote
                /\ IF res.success /\ Truthy(res.token)
                   THEN /\ MapGet(STORE', Trim(newToken)) # NoMeta
                        /\ MapGet(STORE', Trim(newToken)).serverId = sess[s].serverId
                        /\ MapGet(STORE', Trim(newToken)).expiresAt = clock + EXPIRES_IN_MS
                        /\ sess'[s].toBackend =
                              Append(sess[s].toBackend,
                                     [f |-> AuthFrame(newToken), ok |-> sess[s].remote = "open"])
                   ELSE /\ STORE' = STORE
                        /\ sess'[s].toBackend = sess[s].toBackend]_vars

C6_Witness ==
    \E s \in Sessions :
        /\ sess[s].token = TokShort
        /\ sess[s].results # <<>>
        /\ sess[s].results[1].token = TokLong
        /\ Taken(sess[s].toBackend) = <<AuthFrame(TokShort), AuthFrame(TokLong)>>
        /\ MapGet(STORE, TokLong) # NoMeta
        /\ MapGet(STORE, TokLong).serverId = sess[s].serverId

\* needle occurs in hay
Contains(hay, needle) ==
    \E i \in 0..(Len(hay) - Len(needle)) : SubSeq(hay, i + 1, i + Len(needle)) = needle

\* the frames the relay itself wrote to the client
RelayFrames(r) == {r.toClient[j].f : j \in {k \in 1..Len(r.toClient) : r.toClient[k].f.n = 0}}

\* C7 as stated: no frame the relay originates towards the client contains a
\* credential a refresh obtained; the token refreshed frame holds a proper
\* prefix of it, whatever its length.
C7_RefreshedCredentialNotRevealed ==
    \A s \in Sessions : \A f \in RelayFrames(sess[s]) :
        \A k \in 1..Len(sess[s].results) :
            RefreshOk(sess[s].results[k]) =>
                ~Contains(f.arg, String(sess[s].results[k].token))

\* C8: a session dials at most one outbound connection in its lifetime: what it
\* dialled never changes afterwards, through any refresh, and a connection
\* that was opened or ended is never connecting again.
C8_OneOutboundPerSession ==
    /\ [](\A s \in Sessions : Len(sess[s].dialled) <= 1)
    /\ [][\A s \in Sessions :
            /\ sess[s].dialled # <<>> => sess'[s].dialled = sess[s].dialled
            /\ sess[s].remote # "none" =>
                  (sess'[s].remote = "connecting" => sess[s].remote = "connecting")]_vars

C8_Witness ==
    \E s \in Sessions :
        /\ Len(sess[s].dialled) = 1
        /\ sess[s].remote = "open"
        /\ \E k \in 1..Len(sess[s].results) :
              /\ RefreshOk(sess[s].results[k])
              /\ sess[s].results[k].socket \notin {NoSocket, sess[s].dialled[1]}

\* C9: once a session is authenticated, a closed inbound connection leads to
\* the outbound connection being closed, and a closed outbound connection to
\* the inbound connection being closed; neither is a fault of the process.
C9_ClosePropagates ==
    /\ \A s \in Sessions :
          (sess[s].onForward /\ sess[s].client = "closed") ~> (sess[s].remote = "closed")
    /\ \A s \in Sessions :
          (sess[s].remote = "closed") ~> (sess[s].client = "closed")
    /\ [](\A s \in Sessions : sess[s].onForward => ~fault)

C9_Witness ==
    \E s \in Sessions :
        /\ sess[s].hungUp
        /\ sess[s].remoteOn
        /\ sess[s].client = "closed"
        /\ sess[s].remote = "closed"

\* the entry the last call's token named before the call
RegEntry == MapGet(regLast.before, Trim(String(regLast.token)))

\* C10: getToken on a token stored with an expiresAt returns the stored
\* metadata at any time up to and including expiresAt and leaves the registry
\* as it was; a getToken later than that returns nothing, and from then on the
\* entry is gone from the registry and from listTokens().
C10_GetUntilExpiry ==
    (regLast.op = "getToken" /\ RegEntry # NoMeta /\ RegEntry.expiresAt # NoExpiry) =>
        IF regLast.at <= RegEntry.expiresAt
        THEN /\ regLast.result = RegEntry
             /\ RegEntry.serverId = "A"
             /\ STORE = regLast.before
        ELSE /\ regLast.result = NoMeta
             /\ Trim(String(regLast.token)) \notin Keys(STORE)
             /\ Len(listTokens(STORE)) = Len(listTokens(regLast.before)) - 1
             /\ \A i \in 1..Len(listTokens(STORE)) :
                   listTokens(STORE)[i].tokenPrefix #
                       Slice(Trim(String(regLast.token)), PREFIX_LEN) \o ELLIPSIS

\* C10 as stated: getToken behaves as above, and once the clock is past the
\* expiresAt of an entry, listTokens() does not contain it.
C10_ExpiredNeverListed ==
    /\ C10_GetUntilExpiry
    /\ regLast.op = "listTokens" =>
          \A i \in 1..Len(regLast.listing) :
              regLast.listing[i].expiresAt # NoExpiry =>
                  regLast.at <= regLast.listing[i].expiresAt

C10_Witness ==
    /\ regLast.op = "getToken"
    /\ regLast.token = Pad(TokShort)
    /\ RegEntry # NoMeta
    /\ regLast.at > RegEntry.expiresAt
    /\ RegEntry.expiresAt > EXPIRES_IN_MS
    /\ regLast.before # <<>>
    /\ STORE = <<>>

\* the tokens that trim to the same key as the last call's token
SameKey == {c \in RegTokens : Trim(String(c)) = Trim(String(regLast.token))}

\* C11 as stated: after storeToken(c, m), getToken of c and of every padding of
\* c (and of every string c is a padding of) returns the metadata just stored;
\* deleteToken of any of them removes that entry.
C11_TrimInvariant ==
    /\ regLast.op = "storeToken" =>
          \A c \in SameKey :
              /\ getTokenResult(STORE, c, clock) # NoMeta
              /\ getTokenResult(STORE, c, clock).createdAt = regLast.at
              /\ getTokenResult(deleteToken(STORE, c), regLast.token, clock) = NoMeta
    /\ regLast.op = "deleteToken" =>
          \A c \in SameKey : getTokenResult(STORE, c, clock) = NoMeta
    /\ regLast.op = "getToken" =>
          \A c \in SameKey : getTokenResult(regLast.before, c, regLast.at) = regLast.result

\* C12 as stated: no element of a listTokens() output contains the whole key
\* of a stored entry, whatever the key's length.
C12_ListHidesKeys ==
    regLast.op = "listTokens" =>
        \A i \in 1..Len(regLast.listing), j \in 1..Len(regLast.before) :
            regLast.before[j].key # <<>> =>
                ~Contains(regLast.listing[i].tokenPrefix, regLast.before[j].key)

\* C13: a getConsoleToken call never ends in an exception, whatever its upstream
\* calls produce and whether or not its log lines can be written; a call that
\* has returned returned either a success result or {success: false, error}, and
\* every step of a call in progress can be taken.
C13_IssueNeverRaises ==
    /\ call.pc # "raised"
    /\ call.pc \notin {"idle", "done"} => ENABLED NextIssue
    /\ call.pc = "done" =>
          /\ call.result # NoResult
          /\ call.result = getConsoleToken(cfg, call.primary, call.fallback)
          /\ call.result.success \/ call.result.error # ""

C13_Witness ==
    /\ call.pc = "done"
    /\ ~call.result.success
    /\ call.upstream = <<"client", "application">>
    /\ \A i \in 1..Len(call.logged) : ~call.logged[i].written
    /\ call.logged[1].status = 0
    /\ call.logged[2].status = 500

PresentedIssued(r) ==
    /\ r.seen # <<>>
    /\ r.seen[1].rec # NoMeta
    /\ r.seen[1].rec.serverId = r.serverId
    /\ [id |-> r.serverId, token |-> Trim(r.seen[1].token)] \in issued
    /\ r.seen[1].at <= r.seen[1].rec.createdAt + EXPIRES_IN_MS

\* the session dialled, sent the client no error frame of its handshake, and
\* the first frame the backend took, if wsRemote opened, is the auth frame
\* with the token presented
Accepted(r) ==
    /\ Len(r.dialled) = 1
    /\ ErrorsSent(r, "Invalid or expired token") = {}
    /\ ErrorsSent(r, "Backend connection failed") = {}
    /\ r.remoteOn => IsPrefix(<<AuthFrame(r.seen[1].token)>>, Taken(r.toBackend))

\* C15 as stated: a token the endpoint returned with success for a server,
\* presented as it is or padded with whitespace to a session for that server
\* within 15 min, is accepted.
C15_IssuedCredentialAccepted ==
    \A s \in Sessions : PresentedIssued(sess[s]) => Accepted(sess[s])

\* C16 as stated: no event of a session ends in an unhandled fault of the
\* process.
C16_NoUnhandledFault == ~fault

\* the handshake of r presented a token whose entry was past its expiresAt
PresentedExpired(r) ==
    /\ r.seen # <<>>
    /\ r.seen[1].rec # NoMeta
    /\ r.seen[1].rec.expiresAt # NoExpiry
    /\ r.seen[1].at > r.seen[1].rec.expiresAt

\* C17: a session that presents a token whose registry entry is past its
\* expiresAt sends the error frame of a refused credential, closes the inbound
\* connection and never dials; the lookup itself removes the entry.
C17_ExpiredRejectedAndRemoved ==
    /\ [](\A s \in Sessions : PresentedExpired(sess[s]) =>
            /\ ErrorsSent(sess[s], "Invalid or expired token") # {}
            /\ sess[s].client \in {"closing", "closed"}
            /\ sess[s].dialled = <<>>
            /\ sess[s].remote = "none")
    /\ [][\A s \in Sessions :
            (sess[s].seen = <<>> /\ PresentedExpired(sess'[s])) =>
                /\ Trim(sess'[s].seen[1].token) \in Keys(STORE)
                /\ Trim(sess'[s].seen[1].token) \notin Keys(STORE')
                /\ Len(STORE') = Len(STORE) - 1]_vars

C17_Witness ==
    \E s \in Sessions :
        /\ PresentedExpired(sess[s])
        /\ sess[s].seen[1].rec.serverId = sess[s].serverId
        /\ sess[s].seen[1].token = Pad(TokLong)
        /\ TokLong \notin Keys(STORE)
        /\ \E j \in ErrorsSent(sess[s], "Invalid or expired token") : sess[s].toClient[j].ok

\* the frames of the client among those the backend took
FromClient(t) == SelectSeq(t, LAMBDA f : f.n > 0)

\* C18: once wsRemote has opened, the first frame the backend took is the auth
\* frame with the token the client presented, the queued client frames follow
\* it in the order sent, and the client frames the backend took are in the
\* order the client sent them: none that came after the open overtakes a
\* queued one.
C18_AuthThenQueueThenLive ==
    \A s \in Sessions : sess[s].remoteOn =>
        LET t == Taken(sess[s].toBackend)
            queued == LastN(NonAuth(sess[s].early), MAX_QUEUE)
        IN  /\ t # <<>>
            /\ t[1] = AuthFrame(sess[s].seen[1].token)
            /\ SubSeq(t, 2, Len(queued) + 1) = queued
            /\ \A i, j \in 1..Len(FromClient(t)) :
                  i < j => FromClient(t)[i].n < FromClient(t)[j].n
            /\ \A i \in 1..Len(FromClient(t)) : FromClient(t)[i] \in
                  {sess[s].heard[k] : k \in 1..Len(sess[s].heard)}

C18_Witness ==
    \E s \in Sessions :
        /\ sess[s].remoteOn
        /\ Len(NonAuth(sess[s].early)) = 1
        /\ Len(FromClient(Taken(sess[s].toBackend))) = 2
        /\ Len(Taken(sess[s].toBackend)) = 3

\* forwardClientMessage was given a frame
Hears(s) == Len(sess'[s].heard) = Len(sess[s].heard) + 1

\* the frame m was sent on wsRemote if that is open, and queued otherwise
SentOrQueued(s, m) ==
    IF sess[s].remote = "open"
    THEN /\ sess'[s].toBackend = Append(sess[s].toBackend, [f |-> m, ok |-> TRUE])
         /\ sess'[s].queue = sess[s].queue
    ELSE /\ sess'[s].toBackend = sess[s].toBackend
         /\ Len(sess'[s].queue) > 0
         /\ sess'[s].queue[Len(sess'[s].queue)] = m

\* C19 as stated: every frame the client sends after its first auth frame is
\* sent on wsRemote if that is open and queued otherwise, a frame whose event
\* is auth included.
C19_EveryFrameSentOrQueued ==
    [][\A s \in Sessions :
         Hears(s) => SentOrQueued(s, sess'[s].heard[Len(sess'[s].heard)])]_vars

\* C19: every frame the client sends after its first auth frame, other than a
\* frame whose event is auth, is sent on wsRemote if that is open and queued
\* otherwise; a frame whose event is auth is neither sent nor queued.
C19_FrameSentOrQueuedUnlessAuth ==
    [][\A s \in Sessions :
         Hears(s) =>
            LET m == sess'[s].heard[Len(sess'[s].heard)]
            IN  IF IsClientAuth(m)
                THEN /\ sess'[s].toBackend = sess[s].toBackend
                     /\ sess'[s].queue = sess[s].queue
                ELSE SentOrQueued(s, m)]_vars

C19_Witness ==
    \E s \in Sessions :
        /\ sess[s].remote = "open"
        /\ Len(sess[s].heard) = 2
        /\ IsClientAuth(sess[s].heard[1])
        /\ ~sess[s].heard[2].json
        /\ Taken(sess[s].toBackend) = <<AuthFrame(sess[s].token), sess[s].heard[2]>>

\* the send() calls on wsClient that gave it the frame m
Forwards(r, m) == {j \in 1..Len(r.toClient) : r.toClient[j].f = m}

\* C20: every frame the backend sent has been given to the client once and
\* unchanged, and was taken if the client connection is open, unless its
\* refresh still awaits the issuer, in which case it has not been given yet;
\* a refresh that threw would forward its frame once as well.
C20_BackendFramesForwardedOnce ==
    \A s \in Sessions :
        /\ \A k \in 1..Len(sess[s].received) :
              LET m == sess[s].received[k]
              IN  IF \E i \in 1..Len(sess[s].inflight) : sess[s].inflight[i] = m
                  THEN Forwards(sess[s], m) = {}
                  ELSE /\ Cardinality(Forwards(sess[s], m)) = 1
                       /\ sess[s].client = "open" =>
                             \A j \in Forwards(sess[s], m) : sess[s].toClient[j].ok
        /\ \A i \in 1..Len(sess[s].inflight) :
              LET m == sess[s].inflight[i]
                  r == onRefreshRaised(sess[s], m)
              IN  /\ Cardinality(Forwards(r, m)) = 1
                  /\ Len(r.toClient) = Len(sess[s].toClient) + 2

C20_Witness ==
    \E s \in Sessions :
        /\ Len(sess[s].received) = 2
        /\ sess[s].inflight = <<>>
        /\ IsExpiryEvent(sess[s].received[1])
        /\ ~sess[s].received[2].json
        /\ sess[s].results # <<>>
        /\ ~sess[s].results[1].success
        /\ \A j \in 1..Len(sess[s].toClient) : sess[s].toClient[j].ok

\* not a well-formed auth frame: not parseable, an event other than auth, args
\* that are no list, or an empty first argument
Malformed(f) == ~f.json \/ f.event # "auth" \/ ~f.isArr \/ f.arg \in {<<>>, NULLV}

\* the session s as it is but for the count of the frames it heard
Untouched(s) == sess'[s] = [sess[s] EXCEPT !.nClient = @ + 1]

\* C21: a client frame that is not a well-formed auth frame, heard while
\* onMessage is attached, leaves the session and the registry as they were (no
\* frame sent, nothing closed, queued or looked up, the timer as it was), and
\* the backend and the queue only ever hold client frames that
\* forwardClientMessage was given.
C21_MalformedHandshakeIgnored ==
    /\ [](\A s \in Sessions :
            \A f \in {sess[s].queue[i] : i \in 1..Len(sess[s].queue)}
                    \cup {sess[s].toBackend[i].f : i \in 1..Len(sess[s].toBackend)} :
               f.n > 0 => \E k \in 1..Len(sess[s].heard) : sess[s].heard[k] = f)
    /\ [][\A s \in Sessions : \A f \in ClientFrames :
            Malformed(f) /\ ClientHandshake(s, f) =>
                Untouched(s) /\ UNCHANGED <<STORE, regLast>>]_vars

C21_Witness ==
    \E s \in Sessions :
        /\ sess[s].nClient = 2
        /\ sess[s].onMessage
        /\ sess[s].timer = "armed"
        /\ sess[s].client = "open"
        /\ sess[s].toClient = <<>>
        /\ sess[s].seen = <<>>
        /\ STORE # <<>>

\* the send() calls of the auth timer's callback
TimeoutFrames(r) ==
    {j \in 1..Len(r.toClient) : r.toClient[j].f = ErrorFrame("Auth timeout")}

\* the auth timer's callback runs in session s
TimerRuns(s) ==
    \/ sess'[s].timer = "fired" /\ sess[s].timer # "fired"
    \/ TimeoutFrames(sess'[s]) # TimeoutFrames(sess[s])

\* C22: the timer's callback runs only while the timer is armed and no auth
\* frame has been taken, so never once a session has authenticated, however
\* late the clock; a timer that fired or was cleared stays so, and a session
\* has sent the auth-timeout frame once if its timer fired and never otherwise.
C22_TimerDeadAfterAuth ==
    /\ [](\A s \in Sessions :
            /\ Cardinality(TimeoutFrames(sess[s])) =
                   IF sess[s].timer = "fired" THEN 1 ELSE 0
            /\ sess[s].onForward => sess[s].timer \in {"cleared", "fired"})
    /\ [][\A s \in Sessions :
            /\ TimerRuns(s) =>
                  sess[s].timer = "armed" /\ sess[s].seen = <<>> /\ ~sess[s].onForward
            /\ sess[s].timer \in {"fired", "cleared"} => sess'[s].timer = sess[s].timer]_vars

C22_Witness ==
    \E s \in Sessions :
        /\ sess[s].onForward
        /\ sess[s].remote = "connecting"
        /\ sess[s].timer = "cleared"
        /\ clock > sess[s].deadline
        /\ sess[s].client = "open"
        /\ sess[s].toClient = <<>>

\* the session authenticated, and its outbound connection could not be created
\* or reported an error before it opened
ConnectFailed(r) ==
    /\ r.meta # NoMeta
    /\ ~r.remoteOn
    /\ r.dialled = <<>> \/ r.remote = "closed"

\* the error frame of a failed connect
ConnectError(r) ==
    IF r.dialled = <<>> THEN ErrorFrame("Backend connection failed")
    ELSE ErrorFrame("Backend connection error")

\* C23: when the outbound connection of an authenticated session could not be
\* created or failed before it opened, the relay has sent the client one error
\* frame, which the client took unless it had closed or the timer had closed
\* it before, the client connection is closing or closed, there is no outbound
\* connection left, and the backend was sent nothing.
C23_ConnectFailureClosesBoth ==
    \A s \in Sessions : ConnectFailed(sess[s]) =>
        LET r == sess[s]
            errors == {j \in 1..Len(r.toClient) : r.toClient[j].f = ConnectError(r)}
        IN  /\ Cardinality(errors) = 1
            /\ ~r.hungUp /\ r.timer # "fired" => \A j \in errors : r.toClient[j].ok
            /\ r.client \in {"closing", "closed"}
            /\ r.remote = IF r.dialled = <<>> THEN "none" ELSE "closed"
            /\ r.toBackend = <<>>

C23_Witness ==
    \E s \in Sessions :
        /\ ConnectFailed(sess[s])
        /\ sess[s].dialled # <<>>
        /\ sess[s].queue # <<>>
        /\ ~sess[s].hungUp
        /\ Taken(sess[s].toClient) = <<ErrorFrame("Backend connection error")>>

\* a send() of the relaying session r found its connection not OPEN
SendFailed(r) ==
    /\ r.onForward
    /\ \/ \E j \in 1..Len(r.toClient) : ~r.toClient[j].ok
       \/ \E j \in 1..Len(r.toBackend) : ~r.toBackend[j].ok

BothClosed(r) == r.client = "closed" /\ r.remote = "closed"

\* C24: once a send of a relaying session has failed, on either connection,
\* the session comes to have both its connections closed.
C24_FailedSendEndsClosed ==
    \A s \in Sessions : SendFailed(sess[s]) ~> BothClosed(sess[s])

C24_Witness ==
    \E s \in Sessions :
        /\ SendFailed(sess[s])
        /\ sess[s].remoteOn
        /\ sess[s].received # <<>>
        /\ BothClosed(sess[s])

\* the 'message' handler of wsRemote was given a frame
Receives(s) == Len(sess'[s].received) = Len(sess[s].received) + 1

\* nothing closed, and no refresh started
Undisturbed(s) ==
    /\ sess'[s].client = sess[s].client
    /\ sess'[s].remote = sess[s].remote
    /\ sess'[s].issuerCalls = sess[s].issuerCalls
    /\ sess'[s].inflight = sess[s].inflight

\* the frames for which Opaque holds go to the other side as they are, and
\* nothing else happens
ForwardedAsIs(s, Opaque(_)) ==
    /\ Hears(s) =>
          LET m == sess'[s].heard[Len(sess'[s].heard)]
          IN  Opaque(m) =>
                /\ SentOrQueued(s, m)
                /\ sess'[s].toClient = sess[s].toClient
                /\ Undisturbed(s)
    /\ Receives(s) =>
          LET m == sess'[s].received[Len(sess'[s].received)]
          IN  Opaque(m) =>
                /\ sess'[s].toClient =
                      Append(sess[s].toClient, [f |-> m, ok |-> sess[s].client = "open"])
                /\ sess'[s].toBackend = sess[s].toBackend
                /\ Undisturbed(s)

\* not of the shape { event: string, args: [...] }
NotEnvelope(f) == ~f.json \/ ~f.isArr

\* C25 as stated: during relaying a message of either direction that is not an
\* { event, args } envelope is forwarded as it is, closes nothing, sends no
\* error frame and starts no refresh.
C25_NonEnvelopeForwarded ==
    [][\A s \in Sessions : ForwardedAsIs(s, NotEnvelope)]_vars

\* does not parse as JSON
Unparsed(f) == ~f.json

\* C25: during relaying a message of either direction that does not parse as
\* JSON is forwarded as it is (sent, or queued while wsRemote is not open),
\* closes nothing, sends no error frame and starts no refresh.
C25_UnparsedForwarded ==
    [][\A s \in Sessions : ForwardedAsIs(s, Unparsed)]_vars

C25_Witness ==
    \E s \in Sessions :
        /\ sess[s].client = "open"
        /\ sess[s].remote = "open"
        /\ \E k \in 1..Len(sess[s].heard) :
              /\ Unparsed(sess[s].heard[k])
              /\ \E j \in 1..Len(sess[s].toBackend) :
                    sess[s].toBackend[j] = [f |-> sess[s].heard[k], ok |-> TRUE]
        /\ \E k \in 1..Len(sess[s].received) :
              /\ Unparsed(sess[s].received[k])
              /\ \E j \in 1..Len(sess[s].toClient) :
                    sess[s].toClient[j] = [f |-> sess[s].received[k], ok |-> TRUE]
        /\ sess[s].issuerCalls = <<>>

\* C26: a session whose two connections are closed does nothing more: it gets
\* no frame taken on either side, calls the issuer no more and leaves the
\* registry as it is, also when a refresh was awaiting the issuer at the close.
C26_ClosedIsTerminal ==
    [][\A s \in Sessions :
         BothClosed(sess[s]) /\ sess'[s] # sess[s] =>
            /\ STORE' = STORE
            /\ sess'[s].issuerCalls = sess[s].issuerCalls
            /\ Taken(sess'[s].toClient) = Taken(sess[s].toClient)
            /\ Taken(sess'[s].toBackend) = Taken(sess[s].toBackend)]_vars

\* the same but for the registry: a closed session sends and asks nothing more
C26_ClosedSendsNothing ==
    [][\A s \in Sessions :
         BothClosed(sess[s]) =>
            /\ sess'[s].issuerCalls = sess[s].issuerCalls
            /\ Taken(sess'[s].toClient) = Taken(sess[s].toClient)
            /\ Taken(sess'[s].toBackend) = Taken(sess[s].toBackend)
            /\ BothClosed(sess'[s])]_vars

\* session s looked a token up
Looks(s) == Len(sess'[s].seen) = Len(sess[s].seen) + 1

\* the record a lookup met was there, and past its expiresAt
MetExpired(look) == look.rec # NoMeta /\ RecordSeen(look) = NoMeta

\* the handshake of r presented a live credential of r's own resource, with a
\* socket to connect to
PresentedLive(r) ==
    /\ r.seen # <<>>
    /\ RecordSeen(r.seen[1]) # NoMeta
    /\ RecordSeen(r.seen[1]).serverId = r.serverId
    /\ RecordSeen(r.seen[1]).socket # NoSocket

\* C27: a handshake, accepted or refused, leaves the registry as it is, but
\* for the removal of the record it looked up when that is past its
\* expiresAt; and every session that presents a live credential of its own
\* resource is connected to the backend, whichever sessions presented the
\* credential before or hold a connection made with it.
C27_CredentialReusable ==
    /\ [](\A s \in Pair : PresentedLive(sess[s]) =>
            /\ sess[s].dialled = <<RecordSeen(sess[s].seen[1]).socket>>
            /\ ErrorsSent(sess[s], "Invalid or expired token") = {})
    /\ [][\A s \in Pair : Looks(s) =>
            LET look == sess'[s].seen[Len(sess'[s].seen)]
            IN  STORE' = IF MetExpired(look)
                         THEN MapDelete(STORE, Trim(look.token))
                         ELSE STORE]_vars

C27_Witness ==
    /\ \A s \in Pair :
          /\ PresentedLive(sess[s])
          /\ sess[s].seen[1].token = TokLong
          /\ sess[s].client = "open"
          /\ sess[s].remote \in {"connecting", "open"}
    /\ sess[1].remote = "open"

\* the credential served a session that has closed, then another one
C27_Sequential ==
    /\ PresentedLive(sess[1]) /\ BothClosed(sess[1])
    /\ PresentedLive(sess[2]) /\ sess[2].remote = "open"
    /\ sess[2].seen[1].at >= sess[1].seen[1].at
    /\ sess[2].seen[1].token = sess[1].seen[1].token

\* the path does not match the relay path, or its segment does not decode
BadPath(path) == PathMatch(path) = <<>> \/ ~decodeURIComponent(PathMatch(path)).ok

\* C28: an upgrade request whose path does not match the relay path, or whose
\* segment does not decode, creates no session, leaves the sessions there are
\* and the registry as they were, and raises nothing unhandled in the process.
C28_BadPathRejected ==
    [][\A s \in Pair : \A path \in Paths :
         BadPath(path) /\ UpgradeRequest(s, path) =>
            /\ sess' = sess
            /\ STORE' = STORE
            /\ ~fault']_vars

\* the same for the paths that do not match
C28_NoMatchRejected ==
    [][\A s \in Pair : \A path \in Paths :
         PathMatch(path) = <<>> /\ UpgradeRequest(s, path) =>
            /\ sess' = sess
            /\ STORE' = STORE
            /\ ~fault']_vars

\* the await of the endpoint returns in this step
Answers == call.pc = "done" /\ call'.pc = "idle" /\ call'.n = call.n

\* C29: no step of getConsoleToken changes the registry, and when the call of
\* the endpoint returned a failure the endpoint leaves the registry and the
\* set of tokens it returned as they were and answers success: false; the
\* registry changes only when the endpoint got a success.
C29_IssuerLeavesRegistry ==
    /\ [][~Answers => STORE' = STORE /\ regLast' = regLast]_vars
    /\ [][Answers /\ ~call.result.success =>
            /\ STORE' = STORE
            /\ issued' = issued
            /\ ~call'.answer.success
            /\ call'.answer.status = 500]_vars
    /\ [][Answers /\ call.result.success =>
            /\ call'.answer.success
            /\ MapGet(STORE', Trim(call'.answer.token)) # NoMeta]_vars

C29_Witness ==
    /\ call.n = 2
    /\ call.pc = "idle"
    /\ call.answer # NoResult
    /\ ~call.answer.success
    /\ call.upstream # <<>>
    /\ STORE # <<>>

\* C30 as stated: after storeToken(c, m), for every string c, the empty and
\* the whitespace-only ones included, the registry holds an entry under the
\* trimmed c, created at the time of the call, and its other entries are as
\* they were before.
C30_PutAlwaysStores ==
    regLast.op = "storeToken" =>
        LET key == Trim(String(regLast.token))
        IN  /\ MapGet(STORE, key) # NoMeta
            /\ MapGet(STORE, key).createdAt = regLast.at
            /\ \A k \in (Keys(STORE) \cup Keys(regLast.before)) \ {key} :
                  MapGet(STORE, k) = MapGet(regLast.before, k)

\* the same for the strings that are not empty
C30_PutStoresNonEmpty ==
    (regLast.op = "storeToken" /\ regLast.token # <<>>) =>
        LET key == Trim(String(regLast.token))
        IN  /\ MapGet(STORE, key) # NoMeta
            /\ MapGet(STORE, key).createdAt = regLast.at
            /\ \A k \in (Keys(STORE) \cup Keys(regLast.before)) \ {key} :
                  MapGet(STORE, k) = MapGet(regLast.before, k)

\* the frames of the backend among those the client took
FromBackend(t) == SelectSeq(t, LAMBDA f : f.n > 0)

\* C31 as stated: the client takes the frames of the backend in the order the
\* backend sent them, an expiry frame whose refresh awaits the issuer included.
C31_BackendOrderKept ==
    \A s \in Sessions :
        LET t == FromBackend(Taken(sess[s].toClient))
        IN  \A i, j \in 1..Len(t) : i < j => t[i].n < t[j].n

\* the same for the frames that start no refresh
C31_OrdinaryOrderKept ==
    \A s \in Sessions :
        LET t == SelectSeq(FromBackend(Taken(sess[s].toClient)),
                           LAMBDA f : ~IsExpiryEvent(f))
        IN  \A i, j \in 1..Len(t) : i < j => t[i].n < t[j].n

\* the credentials an upstream response holds at the candidate field paths
PresentIn(d) == {d.ddToken, d.dToken, d.attrToken} \ {NULLV, <<>>}

\* C32 as stated: the token of a success answer of the endpoint, and the key of
\* every entry the endpoint adds to the registry, is a credential that one of
\* the upstream responses of the call held; with no credential in them the
\* endpoint registers nothing and does not answer success.
C32_OnlyUpstreamCredentials ==
    [][Answers =>
         LET present == PresentIn(call.primary) \cup PresentIn(call.fallback)
         IN  /\ call'.answer.success => call'.answer.token \in present
             /\ \A k \in Keys(STORE') \ Keys(STORE) : k \in {Trim(t) : t \in present}
             /\ present = {} => STORE' = STORE /\ ~call'.answer.success]_vars

\* the same for the calls whose upstream response held a credential
C32_UpstreamCredentialKept ==
    [][Answers /\ call.result.success /\ call.result.token # NULLV =>
         LET present == PresentIn(call.primary) \cup PresentIn(call.fallback)
         IN  /\ call'.answer.token \in present
             /\ \A k \in Keys(STORE') \ Keys(STORE) : k \in {Trim(t) : t \in present}]_vars

\* the error frames among the send() calls on wsClient from the i-th on
ErrorsFrom(log, i) == {j \in i..Len(log) : log[j].f.event = "error"}

\* C33: when the issuer call of a refresh returns a failure or no credential,
\* the session sends the client one error frame and then the expiry frame,
\* sends the backend nothing, leaves the registry as it is and closes neither
\* connection; a refresh that threw would do the same.
C33_FailedRefreshKeepsRelaying ==
    /\ [][\A s \in Sessions : Refreshed(s) =>
            LET res == sess'[s].results[Len(sess'[s].results)]
                before == Len(sess[s].toClient)
            IN  ~(res.success /\ res.token \notin {NULLV, <<>>}) =>
                   /\ Len(sess'[s].toClient) = before + 2
                   /\ SubSeq(sess'[s].toClient, 1, before) = sess[s].toClient
                   /\ ErrorsFrom(sess'[s].toClient, before + 1) = {before + 1}
                   /\ IsExpiryEvent(sess'[s].toClient[before + 2].f)
                   /\ sess'[s].toBackend = sess[s].toBackend
                   /\ STORE' = STORE
                   /\ sess'[s].client = sess[s].client
                   /\ sess'[s].remote = sess[s].remote
                   /\ sess'[s].dialled = sess[s].dialled]_vars
    /\ [](\A s \in Sessions : \A i \in 1..Len(sess[s].inflight) :
            LET r == onRefreshRaised(sess[s], sess[s].inflight[i])
                before == Len(sess[s].toClient)
            IN  /\ ErrorsFrom(r.toClient, before + 1) = {before + 1}
                /\ r.toBackend = sess[s].toBackend
                /\ r.client = sess[s].client
                /\ r.remote = sess[s].remote)

C33_Witness ==
    \E s \in Sessions :
        /\ sess[s].results # <<>>
        /\ sess[s].results[1].success
        /\ sess[s].results[1].token = NULLV
        /\ sess[s].client = "open"
        /\ sess[s].remote = "open"
        /\ Len(Taken(sess[s].toClient)) = 2
        /\ Taken(sess[s].toClient)[1] = ErrorFrame("Token refresh failed")
        /\ Taken(sess[s].toBackend) = <<AuthFrame(sess[s].token)>>

\* C34: a session with a message in its queue has no open outbound connection;
\* the 'open' handler leaves the queue empty, every message heard while the
\* connection is open is sent and not queued, and once the connection has left
\* the open state it is not open again and the backend takes nothing more, so
\* what is queued from then on stays in the queue.
C34_QueueOnlyWhileNotOpen ==
    /\ [](\A s \in Sessions :
            /\ sess[s].queue # <<>> => sess[s].remote # "open"
            /\ sess[s].remote = "open" => sess[s].remoteOn)
    /\ [][\A s \in Sessions :
            /\ sess[s].remote = "open" /\ sess'[s].remote = "open" =>
                  sess'[s].queue = <<>>
            /\ sess[s].remoteOn /\ sess[s].remote # "open" =>
                  /\ sess'[s].remote # "open"
                  /\ Taken(sess'[s].toBackend) = Taken(sess[s].toBackend)
                  /\ sess[s].queue # <<>> => sess'[s].queue # <<>>]_vars

C34_Witness ==
    \E s \in Sessions :
        /\ sess[s].remoteOn
        /\ sess[s].remote \in {"closing", "closed"}
        /\ Len(sess[s].early) = 1
        /\ Len(sess[s].queue) = 1
        /\ sess[s].queue[1].n > sess[s].early[1].n
        /\ Taken(sess[s].toBackend) = <<AuthFrame(sess[s].token), sess[s].early[1]>>

\* the one lookup of r did not validate: no live record, or one of another server
FailedValidation(r) ==
    /\ r.seen # <<>>
    /\ \/ RecordSeen(r.seen[1]) = NoMeta
       \/ RecordSeen(r.seen[1]).serverId # r.serverId

\* C35: a session looks up one token at most, that of the first well-formed
\* auth frame; at the lookup onMessage is detached and the timer no longer
\* armed; and a session whose lookup did not validate never has an outbound
\* connection nor a handler for the frames that follow.
C35_OneValidationPerSession ==
    /\ [](\A s \in Sessions :
            /\ Len(sess[s].seen) <= 1
            /\ sess[s].seen # <<>> => ~sess[s].onMessage /\ sess[s].timer # "armed"
            /\ FailedValidation(sess[s]) =>
                  /\ sess[s].dialled = <<>>
                  /\ sess[s].remote = "none"
                  /\ ~sess[s].onForward
                  /\ sess[s].toBackend = <<>>)
    /\ [][\A s \in Sessions :
            /\ Looks(s) => sess[s].seen = <<>> /\ sess[s].onMessage
            /\ sess[s].seen # <<>> => sess'[s].seen = sess[s].seen]_vars

C35_Witness ==
    \E s \in Sessions :
        /\ FailedValidation(sess[s])
        /\ sess[s].nClient = 3
        /\ sess[s].client = "closing"
        /\ \E i \in issued : i.id = sess[s].serverId /\ MapGet(STORE, Trim(i.token)) # NoMeta
        /\ ErrorsSent(sess[s], "Invalid or expired token") = {1}

====
